---- MODULE Spec2Model ----
(***************************************************************************)
(* Profile lifecycle of elastic-package: the "profiles" command group      *)
(* (create, delete, list, use) and the metadata store (profile.json).      *)
(*                                                                         *)
(* A string is a sequence of one-character strings.  "xFF" stands for a    *)
(* byte that is not valid UTF-8 and "uFFFD" for the replacement character  *)
(* U+FFFD.  A JSON string literal is a sequence of tokens: a character     *)
(* written as it is, or an escape token such as "esc-u003c".               *)
(***************************************************************************)
EXTENDS Integers, Sequences, FiniteSets, TLC

VARIABLES profiles, config, clock, localTZ, rootReadable, last, m

vars == <<profiles, config, clock, localTZ, rootReadable, last, m>>

\* ------------------------------------------------------------------ bounds

\* Longest fact value (profile name, profile path) and user name drawn for
\* the metadata store's write/load specification.
MaxStrLen == 2
\* The wall clock runs over seconds 0..MaxSec and, within a second, over
\* nanoseconds 0..MaxNsec.
MaxSec == 1
MaxNsec == 1
\* Zone offsets of the process's local time zone: 0..MaxTZ.
MaxTZ == 1

\* ----------------------------------------------------------------- strings

NoError == "nil"

Str(c) == <<c>>

\* Characters of the strings handed to the metadata store.
MetaChars == {"a", "<", "xFF"}

RECURSIVE StringsUpTo(_, _)
StringsUpTo(chars, n) ==
    IF n = 0 THEN {<<>>}
    ELSE LET shorter == StringsUpTo(chars, n - 1)
         IN shorter \cup {Append(s, c) : s \in shorter, c \in chars}

ValidUTF8(s) == \A i \in 1..Len(s) : s[i] # "xFF"

\* --------------------------------------------------------------- time.Time

\* A time.Time: the wall-clock instant (sec, nsec), whether it carries a
\* monotonic clock reading, and its location with that location's offset.
ZeroTime == [sec |-> 0, nsec |-> 0, mono |-> FALSE, loc |-> "UTC", off |-> 0]

\* time.Now(): the wall clock, a monotonic reading, the Local location.
TimeNow(clk, tz) ==
    [sec |-> clk.sec, nsec |-> clk.nsec, mono |-> TRUE, loc |-> "Local", off |-> tz]

\* time.Time.Equal: the same instant.
TimeEqual(t, u) == t.sec = u.sec /\ t.nsec = u.nsec

\* time.Time.After.
TimeAfter(t, u) == t.sec > u.sec \/ (t.sec = u.sec /\ t.nsec > u.nsec)

\* time.Time.MarshalJSON: RFC 3339 with nanoseconds: the local date and time,
\* the fraction of the second, and the zone offset ("Z" when it is zero).  The
\* monotonic reading is not part of the text.
\* (MarshalTime_seconds: the text cut to whole seconds, as time.RFC3339 is.)
MarshalTime_seconds(t) == [local |-> t.sec + t.off, nsec |-> 0, off |-> t.off]

MarshalTime(t) == [local |-> t.sec + t.off, nsec |-> t.nsec, off |-> t.off]

\* time.Time.UnmarshalJSON, in a process whose local zone offset is tz: "Z" is
\* UTC, the local offset is Local, any other offset is a fixed zone.
UnmarshalTime(txt, tz) ==
    [sec |-> txt.local - txt.off, nsec |-> txt.nsec, mono |-> FALSE,
     loc |-> IF txt.off = 0 THEN "UTC" ELSE IF txt.off = tz THEN "Local" ELSE "Fixed",
     off |-> txt.off]

\* time.Time.Format(time.RFC3339): whole seconds.
FormatRFC3339(t) == [local |-> t.sec + t.off, off |-> t.off]

\* -------------------------------------------------------------------- JSON

\* encoding/json writes a string: the character < as the escape u003c, an
\* invalid UTF-8 byte as the escape ufffd, any other character as it is.
\* Reading it back turns each escape into the character it names.
EscapeChar(c) ==
    IF c = "<" THEN "esc-u003c" ELSE IF c = "xFF" THEN "esc-ufffd" ELSE c

UnescapeToken(t) ==
    IF t = "esc-u003c" THEN "<" ELSE IF t = "esc-ufffd" THEN "uFFFD" ELSE t

EncodeString(s) == [i \in 1..Len(s) |-> EscapeChar(s[i])]

DecodeString(j) == [i \in 1..Len(j) |-> UnescapeToken(j[i])]

\* A file's content that is no JSON document of a Metadata.
Garbage == [garbage |-> TRUE]

DocumentKeys == {"name", "date_created", "user", "version", "path"}

IsDocument(d) == DOMAIN d = DocumentKeys

\* json.Encoder.Encode of a Metadata: the five keys in declaration order.
\* (EncodeMetadata_truncatedTime: date_created written in whole seconds.)
EncodeMetadata_truncatedTime(md) ==
    [name |-> EncodeString(md.Name),
     date_created |-> MarshalTime_seconds(md.DateCreated),
     user |-> EncodeString(md.User),
     version |-> EncodeString(md.Version),
     path |-> EncodeString(md.Path)]

EncodeMetadata(md) ==
    [name |-> EncodeString(md.Name),
     date_created |-> MarshalTime(md.DateCreated),
     user |-> EncodeString(md.User),
     version |-> EncodeString(md.Version),
     path |-> EncodeString(md.Path)]

\* json.Unmarshal into a Metadata.
DecodeMetadata(doc, tz) ==
    [Name |-> DecodeString(doc.name),
     DateCreated |-> UnmarshalTime(doc.date_created, tz),
     User |-> DecodeString(doc.user),
     Version |-> DecodeString(doc.version),
     Path |-> DecodeString(doc.path)]

\* ---------------------------------------------------------- metadata store

ZeroMetadata ==
    [Name |-> <<>>, DateCreated |-> ZeroTime, User |-> <<>>, Version |-> <<>>,
     Path |-> <<>>]

\* version.CommitHash of the build.
CommitHash == Str("v")

FactKeys == {"profile_name", "profile_path"}

\* resource.Context.Fact: the value and whether the key is present.
Fact(facts, key) ==
    [found |-> key \in DOMAIN facts,
     value |-> IF key \in DOMAIN facts THEN facts[key] ELSE <<>>]

\* The Metadata literal of profileMetadataContent.
profileData(facts, user, now) ==
    [Name |-> Fact(facts, "profile_name").value,
     DateCreated |-> now,
     User |-> user.Username,
     Version |-> CommitHash,
     Path |-> Fact(facts, "profile_path").value]

\* profileMetadataContent with the profile_path check left out, with the
\* zero time in place of time.Now(), and with the path written as the name.
profileMetadataContent_noPathCheck(facts, user, now, wr) ==
    IF ~user.ok THEN [err |-> "error fetching current user", w |-> <<>>]
    ELSE IF ~Fact(facts, "profile_name").found
    THEN [err |-> "unknown profile name", w |-> <<>>]
    ELSE IF wr # "ok"
    THEN [err |-> "error marshalling json",
          w |-> IF wr = "partial" THEN <<Garbage>> ELSE <<>>]
    ELSE [err |-> NoError, w |-> <<EncodeMetadata(profileData(facts, user, now))>>]

profileMetadataContent_zeroTime(facts, user, now, wr) ==
    IF ~user.ok THEN [err |-> "error fetching current user", w |-> <<>>]
    ELSE IF ~Fact(facts, "profile_name").found
    THEN [err |-> "unknown profile name", w |-> <<>>]
    ELSE IF ~Fact(facts, "profile_path").found
    THEN [err |-> "unknown profile path", w |-> <<>>]
    ELSE IF wr # "ok"
    THEN [err |-> "error marshalling json",
          w |-> IF wr = "partial" THEN <<Garbage>> ELSE <<>>]
    ELSE [err |-> NoError, w |-> <<EncodeMetadata(profileData(facts, user, ZeroTime))>>]

profileMetadataContent_pathAsName(facts, user, now, wr) ==
    IF ~user.ok THEN [err |-> "error fetching current user", w |-> <<>>]
    ELSE IF ~Fact(facts, "profile_name").found
    THEN [err |-> "unknown profile name", w |-> <<>>]
    ELSE IF ~Fact(facts, "profile_path").found
    THEN [err |-> "unknown profile path", w |-> <<>>]
    ELSE IF wr # "ok"
    THEN [err |-> "error marshalling json",
          w |-> IF wr = "partial" THEN <<Garbage>> ELSE <<>>]
    ELSE [err |-> NoError, w |-> <<EncodeMetadata([profileData(facts, user, now) EXCEPT
                                    !.Name = Fact(facts, "profile_path").value])>>]

\* profileMetadataContent(applyCtx, w): user is the outcome of user.Current(),
\* now the value of time.Now(), wr what the writer w does with the encoded
\* document: "ok" takes it, "nothing" fails without taking a byte, "partial"
\* fails having taken a part of it.  The result is the error and what w got.
profileMetadataContent(facts, user, now, wr) ==
    IF ~user.ok THEN [err |-> "error fetching current user", w |-> <<>>]
    ELSE IF ~Fact(facts, "profile_name").found
    THEN [err |-> "unknown profile name", w |-> <<>>]
    ELSE IF ~Fact(facts, "profile_path").found
    THEN [err |-> "unknown profile path", w |-> <<>>]
    ELSE IF wr # "ok"
    THEN [err |-> "error marshalling json",
          w |-> IF wr = "partial" THEN <<Garbage>> ELSE <<>>]
    ELSE [err |-> NoError, w |-> <<EncodeMetadata(profileData(facts, user, now))>>]

\* A file: whether it is there and readable, and its content: what was
\* written to it, in order (one document for a metadata file that is intact).
NoFile == [kind |-> "missing", data |-> <<>>]

FileOf(data) == [kind |-> "ok", data |-> data]

\* loadProfileMetadata with the check of json.Unmarshal's error inverted.
loadProfileMetadata_invertedCheck(file, tz) ==
    IF file.kind # "ok"
    THEN [err |-> "error reading metadata file", md |-> ZeroMetadata]
    ELSE IF ~(Len(file.data) # 1 \/ ~IsDocument(file.data[1]))
    THEN [err |-> "error checking profile metadata file", md |-> ZeroMetadata]
    ELSE [err |-> NoError, md |-> ZeroMetadata]

\* loadProfileMetadata(path) on the file at path, in a process whose local
\* zone offset is tz.
loadProfileMetadata(file, tz) ==
    IF file.kind # "ok"
    THEN [err |-> "error reading metadata file", md |-> ZeroMetadata]
    ELSE IF Len(file.data) # 1 \/ ~IsDocument(file.data[1])
    THEN [err |-> "error checking profile metadata file", md |-> ZeroMetadata]
    ELSE [err |-> NoError, md |-> DecodeMetadata(file.data[1], tz)]

\* --------------------------------------------------------- the environment

\* Outcomes of user.Current().
NoUser == [ok |-> FALSE, Username |-> <<>>]

UserNamed(n) == [ok |-> TRUE, Username |-> n]

Clocks == [sec : 0..MaxSec, nsec : 0..MaxNsec]

TZOffsets == 0..MaxTZ

\* --------------------------------------------------------- profile manager

\* Profile names given on the command line, and the profiles root that
\* locations.LocationManager.ProfileDir() returns.
NameA == Str("a")

NameB == Str("b")

DirNames == {NameA, NameB}

\* The order in which the root's subdirectories are enumerated.
DirOrder == <<NameA, NameB>>

Root == <<"/", "r">>

\* filepath.Join(root, name) and filepath.Base(path).
Join(root, name) == root \o <<"/">> \o name

RECURSIVE Base(_)
Base(path) ==
    IF path = <<>> THEN <<>>
    ELSE IF path[Len(path)] = "/" THEN <<>>
    ELSE Append(Base(SubSeq(path, 1, Len(path) - 1)), path[Len(path)])

\* A profile directory: its metadata file and its other contents (the files
\* the base template provisions, which the user may edit: config.yml).
Template == "template"

Contents == {Template, "edited"}

NoDir == [exists |-> FALSE, meta |-> NoFile, contents |-> "none"]

Exists(profs, name) == name \in DOMAIN profs /\ profs[name].exists

\* LoadProfile(name): the directory must exist and hold a valid metadata file.
LoadProfile(profs, name, tz) ==
    IF ~Exists(profs, name) THEN [err |-> "NotFoundError", md |-> ZeroMetadata]
    ELSE LET r == loadProfileMetadata(profs[name].meta, tz)
         IN IF r.err # NoError THEN [err |-> "NotFoundError", md |-> ZeroMetadata]
            ELSE [err |-> NoError, md |-> r.md]

\* FetchAllProfiles(root): the metadata of every subdirectory whose metadata
\* file loads, in enumeration order; a subdirectory whose metadata file does
\* not load is skipped; an error only when the root cannot be read.
RECURSIVE FetchFrom(_, _, _)
FetchFrom(profs, i, tz) ==
    IF i > Len(DirOrder) THEN <<>>
    ELSE LET r == LoadProfile(profs, DirOrder[i], tz)
         IN (IF r.err = NoError THEN <<r.md>> ELSE <<>>) \o FetchFrom(profs, i + 1, tz)

FetchAllProfiles(profs, readable, tz) ==
    IF ~readable THEN [err |-> "IOError", list |-> <<>>]
    ELSE [err |-> NoError, list |-> FetchFrom(profs, 1, tz)]

\* CreateProfile(options): user is the outcome of user.Current(), now the
\* value of time.Now() at the moment the metadata is generated, wr what the
\* metadata file's writer does.  A creation runs to completion or fails
\* outright.
CreateProfile(profs, options, user, now, wr) ==
    IF options.Name = <<>> THEN [err |-> "ValidationError", profiles |-> profs]
    ELSE IF Exists(profs, options.Name)
    THEN [err |-> "AlreadyExistsError", profiles |-> profs]
    ELSE IF options.FromProfile # <<>>
            /\ LoadProfile(profs, options.FromProfile, now.off).err # NoError
    THEN [err |-> "NotFoundError", profiles |-> profs]
    ELSE LET facts == [k \in FactKeys |->
                          IF k = "profile_name" THEN options.Name
                          ELSE Join(Root, options.Name)]
             r == profileMetadataContent(facts, user, now, wr)
         IN IF r.err # NoError THEN [err |-> r.err, profiles |-> profs]
            ELSE [err |-> NoError,
                  profiles |->
                      [profs EXCEPT ![options.Name] =
                          [exists |-> TRUE,
                           meta |-> FileOf(r.w),
                           contents |-> IF options.FromProfile = <<>> THEN Template
                                        ELSE profs[options.FromProfile].contents]]]

\* DeleteProfile(name): removes the whole directory.
DeleteProfile(profs, name) ==
    IF ~Exists(profs, name) THEN [err |-> "NotFoundError", profiles |-> profs]
    ELSE [err |-> NoError, profiles |-> [profs EXCEPT ![name] = NoDir]]

\* ------------------------------------------------------------ the commands

\* What the last step leaves behind: the command (or the event of the
\* environment), its arguments, the error it returned, what it printed, and
\* the calls it made to the packages it uses, in order.
Outcome(op, args, from, format, err, out, calls) ==
    [op |-> op, args |-> args, from |-> from, format |-> format, err |-> err,
     out |-> out, calls |-> calls]

NoCommand == Outcome("none", <<>>, <<>>, "", NoError, <<>>, <<>>)

\* The wall clock when a command reads it: at the start of a second, or
\* later within it.
CommandClocks == {c \in Clocks : c.nsec \in {0, MaxNsec}}

\* The wall clock at the next reading after clk: later in the same second,
\* or in the next second.
Later(clk) ==
    {c \in CommandClocks : \/ c.sec = clk.sec /\ c.nsec > clk.nsec
                           \/ c.sec = clk.sec + 1 /\ c.nsec = 0}

\* Local zone offsets of the machine the commands run on: UTC and one other.
CommandTZ == {0, MaxTZ}

\* m while the commands run: the metadata store is not exercised on its own.
IdleMeta == [phase |-> "idle"]

Init ==
    /\ profiles = [n \in DirNames |-> NoDir]
    /\ config = [current |-> <<>>]
    /\ clock = [sec |-> 0, nsec |-> 0]
    /\ localTZ \in CommandTZ
    /\ rootReadable = TRUE
    /\ last = NoCommand
    /\ m = IdleMeta

\* profiles create [--from fromName] args.  The flags are registered, so
\* reading them does not fail.  The error recorded is the cause the command
\* wraps.
\* (profileNewCommand_swapped: Name and FromProfile mixed up in the options.)
profileNewCommand_swapped(args, fromName, user, wr) ==
    IF Len(args) = 0
    THEN /\ last' = Outcome("create", args, fromName, "", "create requires an argument",
                            <<>>, <<>>)
         /\ UNCHANGED <<profiles, clock, config, localTZ, rootReadable, m>>
    ELSE LET options == [Name |-> fromName, FromProfile |-> args[1]]
             r == CreateProfile(profiles, options, user, TimeNow(clock, localTZ), wr)
         IN /\ profiles' = r.profiles
            /\ IF r.err = NoError THEN clock' \in Later(clock) ELSE clock' = clock
            /\ last' = Outcome("create", args, fromName, "", r.err,
                               IF r.err # NoError THEN <<>>
                               ELSE IF fromName = <<>>
                               THEN <<<<"Created profile", args[1]>>>>
                               ELSE <<<<"Created profile", args[1], "from", fromName>>>>,
                               <<"CreateProfile">>)
            /\ UNCHANGED <<config, localTZ, rootReadable, m>>

profileNewCommand(args, fromName, user, wr) ==
    IF Len(args) = 0
    THEN /\ last' = Outcome("create", args, fromName, "", "create requires an argument",
                            <<>>, <<>>)
         /\ UNCHANGED <<profiles, clock, config, localTZ, rootReadable, m>>
    ELSE LET options == [Name |-> args[1], FromProfile |-> fromName]
             r == CreateProfile(profiles, options, user, TimeNow(clock, localTZ), wr)
         IN /\ profiles' = r.profiles
            /\ IF r.err = NoError THEN clock' \in Later(clock) ELSE clock' = clock
            /\ last' = Outcome("create", args, fromName, "", r.err,
                               IF r.err # NoError THEN <<>>
                               ELSE IF fromName = <<>>
                               THEN <<<<"Created profile", args[1]>>>>
                               ELSE <<<<"Created profile", args[1], "from", fromName>>>>,
                               <<"CreateProfile">>)
            /\ UNCHANGED <<config, localTZ, rootReadable, m>>

\* profiles delete args
\* (profileDeleteCommand_errorDropped: the error of DeleteProfile not returned.)
profileDeleteCommand_errorDropped(args) ==
    /\ IF Len(args) = 0
       THEN /\ last' = Outcome("delete", args, <<>>, "", "delete requires an argument",
                               <<>>, <<>>)
            /\ UNCHANGED profiles
       ELSE LET r == DeleteProfile(profiles, args[1])
            IN /\ profiles' = r.profiles
               /\ last' = Outcome("delete", args, <<>>, "", NoError,
                                  <<<<"Deleted profile", args[1]>>>>,
                                  <<"DeleteProfile">>)
    /\ UNCHANGED <<config, clock, localTZ, rootReadable, m>>

profileDeleteCommand(args) ==
    /\ IF Len(args) = 0
       THEN /\ last' = Outcome("delete", args, <<>>, "", "delete requires an argument",
                               <<>>, <<>>)
            /\ UNCHANGED profiles
       ELSE LET r == DeleteProfile(profiles, args[1])
            IN /\ profiles' = r.profiles
               /\ last' = Outcome("delete", args, <<>>, "", r.err,
                                  IF r.err # NoError THEN <<>>
                                  ELSE <<<<"Deleted profile", args[1]>>>>,
                                  <<"DeleteProfile">>)
    /\ UNCHANGED <<config, clock, localTZ, rootReadable, m>>

\* profileToList: one row per profile, the date as RFC 3339.
profileToList(list) ==
    [i \in 1..Len(list) |->
        <<list[i].Name, FormatRFC3339(list[i].DateCreated), list[i].User,
          list[i].Version, list[i].Path>>]

\* formatTable and formatJSON: what is printed.
formatTable(list) == <<[table |-> profileToList(list)]>>

formatJSON(list) == <<[json |-> [i \in 1..Len(list) |-> EncodeMetadata(list[i])]]>>

tableFormat == "table"

jsonFormat == "json"

Formats == {tableFormat, jsonFormat, "xml"}

\* profiles list --format format.  locationOk is the outcome of
\* locations.NewLocationManager().  The error recorded is the cause the
\* command wraps.
profileListCommand(format, locationOk) ==
    /\ LET r == FetchAllProfiles(profiles, rootReadable, localTZ)
       IN last' =
            IF ~locationOk
            THEN Outcome("list", <<>>, <<>>, format, "error fetching profile", <<>>,
                         <<"NewLocationManager">>)
            ELSE IF r.err # NoError
            THEN Outcome("list", <<>>, <<>>, format, r.err, <<>>,
                         <<"NewLocationManager", "FetchAllProfiles">>)
            ELSE IF Len(r.list) = 0
            THEN Outcome("list", <<>>, <<>>, format, NoError,
                         <<"There are no profiles yet.">>,
                         <<"NewLocationManager", "FetchAllProfiles">>)
            ELSE IF format = tableFormat
            THEN Outcome("list", <<>>, <<>>, format, NoError, formatTable(r.list),
                         <<"NewLocationManager", "FetchAllProfiles">>)
            ELSE IF format = jsonFormat
            THEN Outcome("list", <<>>, <<>>, format, NoError, formatJSON(r.list),
                         <<"NewLocationManager", "FetchAllProfiles">>)
            ELSE Outcome("list", <<>>, <<>>, format, "format not supported", <<>>,
                         <<"NewLocationManager", "FetchAllProfiles">>)
    /\ UNCHANGED <<profiles, config, clock, localTZ, rootReadable, m>>

\* profiles use args.  env says which of locations.NewLocationManager,
\* install.Configuration and install.WriteConfigFile succeed: all of them, or
\* all but one.
EnvFailing(f) ==
    [location |-> f # "location", configuration |-> f # "configuration",
     write |-> f # "write"]

Envs == {EnvFailing(f) : f \in {"none", "location", "configuration", "write"}}

\* (profileUseCommand_noGate: the call of LoadProfile left out.)
profileUseCommand_noGate(args, env) ==
    /\ IF Len(args) = 0
       THEN /\ last' = Outcome("use", args, <<>>, "", "use requires an argument", <<>>, <<>>)
            /\ UNCHANGED config
       ELSE IF ~env.location
       THEN /\ last' = Outcome("use", args, <<>>, "", "error fetching profile", <<>>,
                               <<"NewLocationManager">>)
            /\ UNCHANGED config
       ELSE IF ~env.configuration
       THEN /\ last' = Outcome("use", args, <<>>, "", "failed to load current configuration",
                               <<>>, <<"NewLocationManager", "Configuration">>)
            /\ UNCHANGED config
       ELSE /\ config' = IF env.write THEN [config EXCEPT !.current = args[1]] ELSE config
            /\ last' = Outcome("use", args, <<>>, "",
                               IF env.write THEN NoError ELSE "failed to store configuration",
                               <<>>,
                               <<"NewLocationManager", "Configuration",
                                 "SetCurrentProfile", "WriteConfigFile">>)
    /\ UNCHANGED <<profiles, clock, localTZ, rootReadable, m>>

profileUseCommand(args, env) ==
    /\ IF Len(args) = 0
       THEN /\ last' = Outcome("use", args, <<>>, "", "use requires an argument", <<>>, <<>>)
            /\ UNCHANGED config
       ELSE IF LoadProfile(profiles, args[1], localTZ).err # NoError
       THEN /\ last' = Outcome("use", args, <<>>, "", "cannot use profile", <<>>,
                               <<"LoadProfile">>)
            /\ UNCHANGED config
       ELSE IF ~env.location
       THEN /\ last' = Outcome("use", args, <<>>, "", "error fetching profile", <<>>,
                               <<"LoadProfile", "NewLocationManager">>)
            /\ UNCHANGED config
       ELSE IF ~env.configuration
       THEN /\ last' = Outcome("use", args, <<>>, "", "failed to load current configuration",
                               <<>>, <<"LoadProfile", "NewLocationManager", "Configuration">>)
            /\ UNCHANGED config
       ELSE /\ config' = IF env.write THEN [config EXCEPT !.current = args[1]] ELSE config
            /\ last' = Outcome("use", args, <<>>, "",
                               IF env.write THEN NoError ELSE "failed to store configuration",
                               <<>>,
                               <<"LoadProfile", "NewLocationManager", "Configuration",
                                 "SetCurrentProfile", "WriteConfigFile">>)
    /\ UNCHANGED <<profiles, clock, localTZ, rootReadable, m>>

\* The user edits a file of a profile directory (config.yml).
EditProfileConfig(name, c) ==
    /\ Exists(profiles, name)
    /\ profiles[name].contents # c
    /\ profiles' = [profiles EXCEPT ![name].contents = c]
    /\ last' = Outcome("edit", <<name>>, <<>>, "", NoError, <<>>, <<>>)
    /\ UNCHANGED <<config, clock, localTZ, rootReadable, m>>

\* Arguments of a command: none, a profile name, the empty string.
ArgLists == {<<>>, <<NameA>>, <<NameB>>, <<<<>>>>}

FromNames == {<<>>, NameA, NameB}

\* What a creation meets: the user resolved and the metadata file written,
\* the user not resolved, the write failing.
Writers == {"ok", "nothing", "partial"}

CreateRuns == {<<UserNamed(Str("u")), "ok">>, <<NoUser, "ok">>,
               <<UserNamed(Str("u")), "partial">>}

\* The machine's local time zone changes.
SetTimeZone(z) ==
    /\ z # localTZ
    /\ localTZ' = z
    /\ last' = Outcome("zone", <<>>, <<>>, "", NoError, <<>>, <<>>)
    /\ UNCHANGED <<profiles, config, clock, rootReadable, m>>

Create == \E args \in ArgLists, from \in FromNames, run \in CreateRuns :
              profileNewCommand(args, from, run[1], run[2])

Delete == \E args \in ArgLists : profileDeleteCommand(args)

List == \E format \in Formats, locationOk \in BOOLEAN : profileListCommand(format, locationOk)

Use == \E args \in ArgLists, env \in Envs : profileUseCommand(args, env)

Edit == \E name \in DirNames, c \in Contents : EditProfileConfig(name, c)

Zone == \E z \in CommandTZ : SetTimeZone(z)

Next == Create \/ Delete \/ List \/ Use \/ Edit \/ Zone

Spec == Init /\ [][Next]_vars

\* A profile's metadata file is removed, made unreadable, or overwritten with
\* something that is no metadata document; the profiles root is made
\* unreadable or readable again.
CorruptMetadata(name, kind) ==
    /\ Exists(profiles, name)
    /\ LET file == IF kind = "missing" THEN NoFile
                   ELSE IF kind = "unreadable" THEN [kind |-> "unreadable", data |-> <<>>]
                   ELSE FileOf(<<Garbage>>)
       IN /\ profiles[name].meta # file
          /\ profiles' = [profiles EXCEPT ![name].meta = file]
    /\ last' = Outcome("corrupt", <<name>>, <<>>, "", NoError, <<>>, <<>>)
    /\ UNCHANGED <<config, clock, localTZ, rootReadable, m>>

SetRootReadable(b) ==
    /\ b # rootReadable
    /\ rootReadable' = b
    /\ last' = Outcome("root", <<>>, <<>>, "", NoError, <<>>, <<>>)
    /\ UNCHANGED <<profiles, config, clock, localTZ, m>>

Corrupt == \E name \in DirNames, kind \in {"missing", "unreadable", "garbage"} :
               CorruptMetadata(name, kind)

RootAccess == \E b \in BOOLEAN : SetRootReadable(b)

\* Creation, deletion and listing on a root whose metadata files and whose
\* own directory may go bad.
NextFaults == Create \/ Delete \/ List \/ Zone \/ Corrupt \/ RootAccess

SpecFaults == Init /\ [][NextFaults]_vars

\* ------------------------------------------------- claims C1-C3, C6-C10

\* The metadata that loading profile n yields.
Loads(profs, n) == LoadProfile(profs, n, localTZ).err = NoError

MetadataOf(profs, n) == LoadProfile(profs, n, localTZ).md

Fetched(profs) == FetchAllProfiles(profs, rootReadable, localTZ).list

FetchedNames(profs) == {Fetched(profs)[i].Name : i \in 1..Len(Fetched(profs))}

IndexOf(calls, c) == {i \in 1..Len(calls) : calls[i] = c}

Range(calls) == {calls[i] : i \in 1..Len(calls)}

\* C1: a use of profile p changes and stores the configuration only after
\* LoadProfile(p) succeeded in the same invocation; when LoadProfile(p) fails
\* the command returns an error and the active-profile pointer and the stored
\* configuration stay as they were.
C1_UseGatedByLoadProfile ==
    [][last'.op = "use" /\ Len(last'.args) > 0 =>
          LET p == last'.args[1]
              calls == last'.calls
          IN /\ \A i \in IndexOf(calls, "SetCurrentProfile") \cup IndexOf(calls, "WriteConfigFile") :
                   /\ \E j \in IndexOf(calls, "LoadProfile") : j < i
                   /\ Loads(profiles, p)
             /\ config' # config => Loads(profiles, p) /\ config'.current = p
             /\ ~Loads(profiles, p) => last'.err # NoError /\ config' = config
       ]_vars

C1_Witness ==
    /\ last.op = "use"
    /\ last.args = <<NameB>>
    /\ last.err = "cannot use profile"
    /\ config.current = NameA

\* C2 as stated: the active-profile pointer never names a profile that does
\* not exist under the profiles root.
C2_PointerNamesExistingProfile ==
    config.current # <<>> => Exists(profiles, config.current)

\* C3 as stated: a list request whose format is neither "table" nor "json"
\* fails with the unsupported-format error and prints nothing, whatever
\* profiles the root holds.
C3_UnknownFormatFailsSilently ==
    (last.op = "list" /\ last.format \notin {tableFormat, jsonFormat}) =>
        last.err = "format not supported" /\ last.out = <<>>

\* C6: creating a profile under a name that exists fails with
\* AlreadyExistsError and leaves every profile directory, its contents and
\* its metadata file as they were, with and without --from.
C6_CreateExistingRejected ==
    [][(last'.op = "create" /\ Len(last'.args) > 0 /\ Exists(profiles, last'.args[1])) =>
          /\ last'.err = "AlreadyExistsError"
          /\ profiles' = profiles
          /\ MetadataOf(profiles', last'.args[1]) = MetadataOf(profiles, last'.args[1])
       ]_vars

C6_Witness ==
    /\ last.op = "create"
    /\ last.args = <<NameA>>
    /\ last.from = NameB
    /\ last.err = "AlreadyExistsError"
    /\ Exists(profiles, NameA)
    /\ profiles[NameA].contents = "edited"

\* C7: deleting a profile that does not exist fails with NotFoundError and
\* changes nothing; after a successful delete the listing omits that profile
\* and still holds every other one, and a profile missing from the listing
\* comes back only by being created.
C7_DeleteThenFetchOmits ==
    [][/\ (last'.op = "delete" /\ Len(last'.args) > 0) =>
            LET n == last'.args[1]
            IN IF ~Exists(profiles, n)
               THEN /\ last'.err = "NotFoundError"
                    /\ profiles' = profiles
                    /\ config' = config
               ELSE /\ last'.err = NoError
                    /\ n \notin FetchedNames(profiles')
                    /\ \A i \in 1..Len(Fetched(profiles)) :
                          Fetched(profiles)[i].Name # n =>
                              \E j \in 1..Len(Fetched(profiles')) :
                                  Fetched(profiles')[j] = Fetched(profiles)[i]
       /\ profiles' # profiles =>
             \A n \in FetchedNames(profiles') \ FetchedNames(profiles) :
                 last'.op = "create" /\ last'.args = <<n>> /\ last'.err = NoError
       ]_vars

C7_Witness ==
    /\ last.op = "delete"
    /\ last.args = <<NameA>>
    /\ last.err = NoError
    /\ FetchedNames(profiles) = {NameB}
    /\ config.current = NameB

\* C8: cloning an existing profile A into a new profile B gives B the
\* non-metadata contents of A and a metadata record with name B, a
\* date_created strictly later than A's, and not equal to A's record; A is
\* left as it was; when A does not exist the clone fails with NotFoundError.
C8_CloneGetsOwnMetadata ==
    [][(/\ last'.op = "create" /\ Len(last'.args) > 0
        /\ last'.args[1] # <<>>
        /\ last'.from # <<>>
        /\ ~Exists(profiles, last'.args[1])) =>
          LET A == last'.from
              B == last'.args[1]
          IN IF ~Loads(profiles, A)
             THEN last'.err = "NotFoundError" /\ profiles' = profiles
             ELSE last'.err = NoError =>
                    /\ Loads(profiles', B)
                    /\ profiles'[B].contents = profiles[A].contents
                    /\ MetadataOf(profiles', B).Name = B
                    /\ TimeAfter(MetadataOf(profiles', B).DateCreated,
                                 MetadataOf(profiles, A).DateCreated)
                    /\ MetadataOf(profiles', B) # MetadataOf(profiles, A)
                    /\ profiles'[A] = profiles[A]
       ]_vars

C8_Witness ==
    /\ last.op = "create"
    /\ last.args = <<NameB>>
    /\ last.from = NameA
    /\ last.err = NoError
    /\ profiles[NameB].contents = "edited"
    /\ profiles[NameA].contents = "edited"
    /\ MetadataOf(profiles, NameB).DateCreated.off # MetadataOf(profiles, NameA).DateCreated.off

Valid(n) ==
    /\ Exists(profiles, n)
    /\ profiles[n].meta.kind = "ok"
    /\ Len(profiles[n].meta.data) = 1
    /\ IsDocument(profiles[n].meta.data[1])

RECURSIVE ValidFrom(_)
ValidFrom(i) ==
    IF i > Len(DirOrder) THEN <<>>
    ELSE (IF Valid(DirOrder[i])
          THEN <<DecodeMetadata(profiles[DirOrder[i]].meta.data[1], localTZ)>>
          ELSE <<>>) \o ValidFrom(i + 1)

\* C10: on a readable root the listing never fails because of one profile:
\* it holds the metadata of every profile whose metadata file is valid,
\* whatever the state of the others; it fails only when the root cannot be
\* read; an empty root gives an empty listing and no error.
C10_FetchSkipsCorruptProfiles ==
    LET r == FetchAllProfiles(profiles, rootReadable, localTZ)
    IN /\ r.err # NoError <=> ~rootReadable
       /\ rootReadable => r.list = ValidFrom(1)
       /\ (rootReadable /\ \A n \in DirNames : ~Exists(profiles, n)) => r.list = <<>>
       /\ (last.op = "list" /\ "FetchAllProfiles" \in Range(last.calls)) =>
             /\ last.err = "IOError" <=> ~rootReadable
             /\ (rootReadable /\ last.format = jsonFormat /\ ValidFrom(1) # <<>>) =>
                    last.out = formatJSON(ValidFrom(1))
             /\ (rootReadable /\ last.format = tableFormat /\ ValidFrom(1) # <<>>) =>
                    last.out = formatTable(ValidFrom(1))
             /\ (rootReadable /\ ValidFrom(1) = <<>>) => last.err = NoError

C10_Witness ==
    /\ last.op = "list"
    /\ last.format = jsonFormat
    /\ last.err = NoError
    /\ Exists(profiles, NameA) /\ ~Valid(NameA)
    /\ Valid(NameB)
    /\ last.out = formatJSON(<<MetadataOf(profiles, NameB)>>)

\* ------------------------------------------- the metadata store on its own

\* Every mapping from some of the fact keys to values.
FactsOver(names, paths) ==
    UNION {{f \in [K -> names \cup paths] :
                /\ "profile_name" \in K => f["profile_name"] \in names
                /\ "profile_path" \in K => f["profile_path"] \in paths}
           : K \in SUBSET FactKeys}

MetaNames == StringsUpTo(MetaChars, MaxStrLen)

MetaPaths == StringsUpTo(MetaChars, 1)

MetaUsers == {NoUser} \cup {UserNamed(n) : n \in StringsUpTo(MetaChars, 1) \ {<<>>}}

MetaInit ==
    /\ m \in [phase : {"input"},
              facts : FactsOver(MetaNames, MetaPaths),
              user : MetaUsers,
              now : {TimeNow(c, tz) : c \in Clocks, tz \in TZOffsets},
              wr : Writers,
              tzLoad : TZOffsets]
    /\ profiles = [n \in DirNames |-> NoDir]
    /\ config = [current |-> <<>>]
    /\ clock = [sec |-> 0, nsec |-> 0]
    /\ localTZ = 0
    /\ rootReadable = TRUE
    /\ last = NoCommand

\* The file provider applies the content generator to the target file: the
\* file holds what the generator wrote, and is not there if it wrote nothing.
MetaWrite ==
    /\ m.phase = "input"
    /\ LET r == profileMetadataContent(m.facts, m.user, m.now, m.wr)
       IN m' = [phase |-> "written", facts |-> m.facts, user |-> m.user,
                now |-> m.now, wr |-> m.wr, tzLoad |-> m.tzLoad,
                werr |-> r.err, w |-> r.w,
                written |-> IF r.err = NoError
                            THEN profileData(m.facts, m.user, m.now)
                            ELSE ZeroMetadata,
                file |-> IF r.w = <<>> THEN NoFile ELSE FileOf(r.w)]
    /\ UNCHANGED <<profiles, config, clock, localTZ, rootReadable, last>>

MetaLoad ==
    /\ m.phase = "written"
    /\ LET r == loadProfileMetadata(m.file, m.tzLoad)
       IN m' = [phase |-> "loaded", facts |-> m.facts, user |-> m.user,
                now |-> m.now, wr |-> m.wr, tzLoad |-> m.tzLoad,
                werr |-> m.werr, w |-> m.w, written |-> m.written,
                file |-> m.file, lerr |-> r.err, loaded |-> r.md]
    /\ UNCHANGED <<profiles, config, clock, localTZ, rootReadable, last>>

MetaNext == MetaWrite \/ MetaLoad

SpecMeta == MetaInit /\ [][MetaNext]_vars

\* ------------------------------------------------------------ claims C4, C5

MissingFactErrors == {"unknown profile name", "unknown profile path"}

LacksFact(facts) == ~Fact(facts, "profile_name").found \/ ~Fact(facts, "profile_path").found

Written == m.phase \in {"written", "loaded"}

\* C4 as stated: whatever user.Current() returns, metadata generation on facts
\* that lack profile_name or profile_path fails with the missing-fact error
\* and writes nothing; a record is produced only when both facts are present.
C4_MissingFactAlwaysMissingFactError ==
    Written =>
        /\ LacksFact(m.facts) => m.werr \in MissingFactErrors /\ m.w = <<>>
        /\ m.werr = NoError => ~LacksFact(m.facts)

\* C4 amended: metadata generation on facts that lack profile_name or
\* profile_path fails and writes nothing; the error is the missing-fact error
\* naming the first missing key when user.Current() succeeded, and the
\* current-user error when it failed; a record is produced only when both
\* facts are present and the user was resolved.
C4_MissingFactFails ==
    Written =>
        /\ LacksFact(m.facts) =>
              /\ m.w = <<>>
              /\ m.file = NoFile
              /\ m.werr = IF ~m.user.ok THEN "error fetching current user"
                          ELSE IF ~Fact(m.facts, "profile_name").found
                          THEN "unknown profile name"
                          ELSE "unknown profile path"
        /\ m.w # <<>> => ~LacksFact(m.facts) /\ m.user.ok
        /\ m.werr = NoError =>
              /\ ~LacksFact(m.facts) /\ m.user.ok
              /\ m.w = <<EncodeMetadata(m.written)>>
              /\ m.written.Name = m.facts["profile_name"]
              /\ m.written.Path = m.facts["profile_path"]

C4_Witness ==
    /\ m.phase = "written"
    /\ m.user.ok
    /\ Fact(m.facts, "profile_name").found
    /\ ~Fact(m.facts, "profile_path").found
    /\ m.werr = "unknown profile path"
    /\ m.w = <<>>

StringFields == {"Name", "User", "Version", "Path"}

\* C5 as stated: loading a written record back yields a record equal to it in
\* all five fields (the two times compared as instants, with time.Equal).
C5_RoundTripAllFields ==
    (m.phase = "loaded" /\ m.werr = NoError) =>
        /\ m.lerr = NoError
        /\ \A f \in StringFields : m.loaded[f] = m.written[f]
        /\ TimeEqual(m.loaded.DateCreated, m.written.DateCreated)

\* What encoding/json makes of a string: invalid UTF-8 bytes replaced by U+FFFD.
Coerced(s) == [i \in 1..Len(s) |-> IF s[i] = "xFF" THEN "uFFFD" ELSE s[i]]

\* C5 amended: loading a written record back succeeds; date_created is the
\* same instant to the nanosecond with the same zone offset (the monotonic
\* clock reading is dropped, so the two time.Time values are not identical);
\* name, user, version and path are equal to the written ones whenever those
\* are valid UTF-8, and otherwise have each invalid byte replaced by U+FFFD.
C5_RoundTripValidUTF8 ==
    (m.phase = "loaded" /\ m.werr = NoError) =>
        /\ m.lerr = NoError
        /\ \A f \in StringFields :
              /\ m.loaded[f] = Coerced(m.written[f])
              /\ ValidUTF8(m.written[f]) => m.loaded[f] = m.written[f]
        /\ TimeEqual(m.loaded.DateCreated, m.written.DateCreated)
        /\ m.loaded.DateCreated.off = m.written.DateCreated.off
        /\ m.written.DateCreated.mono /\ ~m.loaded.DateCreated.mono

C5_Witness ==
    /\ m.phase = "loaded"
    /\ m.werr = NoError /\ m.lerr = NoError
    /\ m.written.Name = <<"a", "<">>
    /\ m.written.DateCreated.nsec > 0
    /\ m.written.DateCreated.off > 0
    /\ m.loaded.Name = m.written.Name
    /\ m.loaded.Path = m.written.Path

====
